---- MODULE Spec2Model ----
(***************************************************************************)
(* party-api: the guestbook HTTP service of src/main.rs, src/admin.rs,     *)
(* src/db.rs and src/error.rs as a state machine.                          *)
(*                                                                         *)
(* State: the visitor table, the rate limiter's per-key cells, the clock,  *)
(* the registrations that passed the rate limiter and wait for their       *)
(* handler, and the response written by the latest step.                   *)
(*                                                                         *)
(* Option<T> is a sequence of length 0 (None / SQL NULL) or 1 (Some).      *)
(***************************************************************************)
EXTENDS Integers, Sequences, FiniteSets, TLC

VARIABLES
    apiKey,     \* env API_KEY read by admin::routes: <<>> unset, <<k>> set
    visitor,    \* the rows of table visitor
    issued,     \* history: the largest id an INSERT has assigned so far
    limiter,    \* governor state: key -> <<>> (no cell yet) or <<tat>>
    now,        \* the clock, seconds
    inflight,   \* request -> how many of it passed the limiter, not yet handled
    resp        \* the response the latest step wrote (NoResponse if none)

vars == <<apiKey, visitor, issued, limiter, now, inflight, resp>>

----------------------------------------------------------------------------
(* Bounds of the model *)

MaxInflight == 2    \* registrations between limiter and handler at once
MaxTime == 60       \* the clock stops advancing here
MaxId == 2          \* INSERT is not modelled past this rowid
MaxTick == 1        \* the clock advances second by second up to here

(* GovernorConfigBuilder: .per_second(60) replenishes one cell every 60 s, *)
(* .burst_size(3)                                                          *)
Period == 60
Burst == 3

----------------------------------------------------------------------------
(* Requests *)

None == <<>>
Some(x) == <<x>>

Max(S) == CHOOSE x \in S : \A y \in S : y <= x

RECURSIVE Join(_)
\* the text of a comma-separated header value made of the given parts
Join(parts) ==
    IF Len(parts) = 1 THEN parts[1]
    ELSE parts[1] \o ", " \o Join(Tail(parts))

\* a HeaderValue: its comma-separated parts and whether all its bytes are
\* visible ASCII (HeaderValue::to_str fails otherwise)
HeaderValue(parts, visible) == [parts |-> parts, visible |-> visible]

\* HeaderValue::to_str(..).ok()
ToStr(hv) == IF hv.visible THEN Some(Join(hv.parts)) ELSE None

\* HeaderMap::get: the first value of the named header, if any
HeaderGet(lines) == IF lines = <<>> THEN None ELSE Some(lines[1])

\* SocketAddr::to_string
AddrToString(addr) == addr.ip \o ":" \o ToString(addr.port)

Peer == [ip |-> "127.0.0.1", port |-> 8080]

\* the X-Forwarded-For header lines a request may carry
XffAbsent == <<>>
XffSingle == <<HeaderValue(<<"1.1.1.1">>, TRUE)>>
XffList == <<HeaderValue(<<"1.1.1.1", "2.2.2.2">>, TRUE)>>
XffUnreadable == <<HeaderValue(<<"1.1.1.1">>, FALSE)>>

\* request bodies: RegisterRequest JSON, or JSON that does not deserialize
\* into it (nick missing)
Payload(nick, group, email, extra) ==
    [json |-> "ok", nick |-> nick, group |-> group, email |-> email,
     extra |-> extra]
NoBody == [json |-> "none", nick |-> "", group |-> None, email |-> None,
           extra |-> None]
MissingNick == [json |-> "missing field", nick |-> "", group |-> None,
                email |-> None, extra |-> None]
OnlyNick == Payload("Test", None, None, None)
AllFields ==
    Payload("Test", Some("Testerz"), Some("test@example.com"), Some("Snacks"))
EmptyNick == Payload("", Some("Awesome"), None, None)

HttpRequest(method, path, id, auth, xff, body) ==
    [method |-> method, path |-> path, id |-> id, auth |-> auth,
     xff |-> xff, peer |-> Peer, body |-> body]

Register(xff, body) == HttpRequest("POST", "/register", 0, None, xff, body)

RegisterRequests ==
    { Register(XffAbsent, OnlyNick),
      Register(XffSingle, EmptyNick),
      Register(XffList, AllFields),
      Register(XffUnreadable, OnlyNick),
      Register(XffAbsent, MissingNick) }

\* Authorization headers: none, the right bearer token, a wrong one
Credentials == {None, Some("Bearer key"), Some("Bearer invalidkey")}

AdminRequests ==
    { HttpRequest("GET", "/admin/visitors", 0, a, XffAbsent, NoBody) :
        a \in Credentials }
    \cup
    { HttpRequest("DELETE", "/admin/visitors/:id", i, a, XffAbsent, NoBody) :
        a \in Credentials, i \in 1..MaxId }

PublicList == HttpRequest("GET", "/visitors", 0, None, XffAbsent, NoBody)
Unrecognized == HttpRequest("GET", "/nope", 0, None, XffAbsent, NoBody)

----------------------------------------------------------------------------
(* Responses *)

\* op names the handler or layer that answered; kind is the body's kind:
\* "empty", "text", "json_error" ({error: ...}) or "json" (a list)
NoResponse ==
    [op |-> "none", status |-> 0, kind |-> "none", error |-> "",
     list |-> <<>>]

Response(op, status, kind, error, list) ==
    [op |-> op, status |-> status, kind |-> kind, error |-> error,
     list |-> list]

\* ApiError::into_response: (code, Json({error}))
ApiErrorResponse(op, e) == Response(op, e.code, "json_error", e.error, <<>>)

----------------------------------------------------------------------------
(* Error mapper (src/error.rs) *)

\* Display of the SQLite error inside sqlx::Error::Database
DbErrorText(err) == "(code: " \o err.code \o ") " \o err.message

\* impl From<sqlx::Error> for ApiError
FromSqlxError(err) ==
    IF err.code = "2067"
    THEN [code |-> 400, error |-> DbErrorText(err)]
    ELSE [code |-> 500,
          error |-> "error returned from database: " \o DbErrorText(err)]

\* impl From<BoxError> for ApiError
FromBoxError(err) ==
    IF err = "TooManyRequests"
    THEN [code |-> 429, error |-> "too many requests"]
    ELSE [code |-> 500, error |-> err]

----------------------------------------------------------------------------
(* Visitor store (src/db.rs and the SQL statements of the handlers) *)

\* id INTEGER PRIMARY KEY (no AUTOINCREMENT): the rowid SQLite gives a new
\* row is one more than the largest rowid currently in the table
NextRowId(table) ==
    IF table = {} THEN 1 ELSE Max({r.id : r \in table}) + 1

\* Insert with the UNIQUE constraint on nick left out of the schema
Insert_NoUnique(table, created_at, ip, nick, group, email, extra) ==
    IF created_at = None \/ ip = None \/ nick = None
    THEN [ok |-> FALSE, code |-> "1299", table |-> table,
          message |-> "NOT NULL constraint failed"]
    ELSE [ok |-> TRUE, code |-> "0", message |-> "",
          table |-> table \cup
            {[id |-> IF table = {} THEN 1
                     ELSE Max({r.id : r \in table}) + 1,
              created_at |-> created_at[1],
              ip |-> ip[1], nick |-> nick[1], group |-> group,
              email |-> email, extra |-> extra]}]

\* Insert as INSERT .. ON CONFLICT(nick) DO UPDATE: a row holding the nick
\* takes the new values and keeps its id
Insert_Upsert(table, created_at, ip, nick, group, email, extra) ==
    IF created_at = None \/ ip = None \/ nick = None
    THEN [ok |-> FALSE, code |-> "1299", table |-> table,
          message |-> "NOT NULL constraint failed"]
    ELSE [ok |-> TRUE, code |-> "0", message |-> "",
          table |->
            {r \in table : r.nick # nick[1]} \cup
            {[id |-> IF \E r \in table : r.nick = nick[1]
                     THEN (CHOOSE r \in table : r.nick = nick[1]).id
                     ELSE IF table = {} THEN 1
                     ELSE Max({r.id : r \in table}) + 1,
              created_at |-> created_at[1],
              ip |-> ip[1], nick |-> nick[1], group |-> group,
              email |-> email, extra |-> extra]}]

\* Insert with a statement that fails on UNIQUE(nick) leaving its row behind
Insert_NotAtomic(table, created_at, ip, nick, group, email, extra) ==
    IF created_at = None \/ ip = None \/ nick = None
    THEN [ok |-> FALSE, code |-> "1299", table |-> table,
          message |-> "NOT NULL constraint failed"]
    ELSE [ok |-> ~ \E r \in table : r.nick = nick[1],
          code |-> IF \E r \in table : r.nick = nick[1] THEN "2067"
                   ELSE "0",
          message |-> IF \E r \in table : r.nick = nick[1]
                      THEN "UNIQUE constraint failed: visitor.nick" ELSE "",
          table |-> table \cup
            {[id |-> IF table = {} THEN 1
                     ELSE Max({r.id : r \in table}) + 1,
              created_at |-> created_at[1],
              ip |-> ip[1], nick |-> nick[1], group |-> group,
              email |-> email, extra |-> extra]}]

\* INSERT INTO visitor (created_at, ip, nick, "group", email, extra) with
\* the bound values (each an Option, None binds NULL) against the schema:
\* NOT NULL columns are checked first, then UNIQUE(nick); a failed
\* statement writes nothing.
Insert(table, created_at, ip, nick, group, email, extra) ==
    IF created_at = None
    THEN [ok |-> FALSE, code |-> "1299", table |-> table,
          message |-> "NOT NULL constraint failed: visitor.created_at"]
    ELSE IF ip = None
    THEN [ok |-> FALSE, code |-> "1299", table |-> table,
          message |-> "NOT NULL constraint failed: visitor.ip"]
    ELSE IF nick = None
    THEN [ok |-> FALSE, code |-> "1299", table |-> table,
          message |-> "NOT NULL constraint failed: visitor.nick"]
    ELSE IF \E r \in table : r.nick = nick[1]
    THEN [ok |-> FALSE, code |-> "2067", table |-> table,
          message |-> "UNIQUE constraint failed: visitor.nick"]
    ELSE [ok |-> TRUE, code |-> "0", message |-> "",
          table |-> table \cup
            {[id |-> NextRowId(table), created_at |-> created_at[1],
              ip |-> ip[1], nick |-> nick[1], group |-> group,
              email |-> email, extra |-> extra]}]

\* Delete with the comparison of the WHERE clause widened to id <= ?
Delete_UpTo(table, id) ==
    [table |-> {r \in table : r.id > id},
     rows_affected |-> Cardinality({r \in table : r.id <= id})]

\* DELETE FROM visitor WHERE id = ?
Delete(table, id) ==
    [table |-> {r \in table : r.id # id},
     rows_affected |-> Cardinality({r \in table : r.id = id})]

RECURSIVE ById(_)
\* the rows of a table as a sequence in rowid order
ById(table) ==
    IF table = {} THEN <<>>
    ELSE LET first == CHOOSE r \in table : \A q \in table : r.id <= q.id
         IN <<first>> \o ById(table \ {first})

\* SelectAll with the rows in descending order of id
SelectAll_Descending(table) ==
    LET rows == ById(table)
    IN [i \in 1..Len(rows) |-> rows[Len(rows) + 1 - i]]

\* SELECT * FROM visitor ORDER BY id, as db::Visitor
SelectAll(table) == ById(table)

\* PublicColumns with the email column selected too
PublicColumns_WithEmail(r) ==
    [id |-> r.id, nick |-> r.nick, group |-> r.group, email |-> r.email]

\* the columns main::Visitor takes from a row
PublicColumns(r) == [id |-> r.id, nick |-> r.nick, group |-> r.group]

\* SELECT id, nick, "group" FROM visitor (a scan of the table, in rowid
\* order), as main::Visitor
SelectPublic(table) ==
    LET rows == ById(table)
    IN [i \in 1..Len(rows) |-> PublicColumns(rows[i])]

----------------------------------------------------------------------------
(* Rate limiter: GovernorLayer with SmartIpKeyExtractor *)

\* SmartIpKeyExtractor: the first address of X-Forwarded-For when the
\* header is readable, else the peer's IP (without the port)
SmartIpKey(req) ==
    LET h == HeaderGet(req.xff)
    IN IF h # None /\ h[1].visible THEN h[1].parts[1] ELSE req.peer.ip

Keys == {SmartIpKey(r) : r \in RegisterRequests}

\* the tolerance of the cell rate algorithm: burst_size periods
Tau == Period * Burst

\* Admit with the conformance test off by one (t0 <= earliest rejects)
Admit_Inclusive(cell, t0) ==
    LET tat == IF cell = None THEN t0 + Period ELSE cell[1]
        earliest == IF tat > Period * Burst THEN tat - Period * Burst ELSE 0
    IN IF t0 <= earliest
       THEN [ok |-> FALSE, cell |-> cell]
       ELSE [ok |-> TRUE, cell |-> Some(Max({tat, t0}) + Period)]

\* Admit with the new cell computed from a stale read of the cell (the state
\* a key starts with), as two unsynchronized checks would
Admit_StaleRead(cell, t0) ==
    LET tat == IF cell = None THEN t0 + Period ELSE cell[1]
        earliest == IF tat > Period * Burst THEN tat - Period * Burst ELSE 0
    IN IF t0 < earliest
       THEN [ok |-> FALSE, cell |-> cell]
       ELSE [ok |-> TRUE, cell |-> Some(Max({t0 + Period, t0}) + Period)]

\* Admit with the conformance test blind to the time that has passed
Admit_NeverRefills(cell, t0) ==
    LET tat == IF cell = None THEN t0 + Period ELSE cell[1]
        earliest == IF tat > Period * Burst THEN tat - Period * Burst ELSE 0
    IN IF 0 < earliest
       THEN [ok |-> FALSE, cell |-> cell]
       ELSE [ok |-> TRUE, cell |-> Some(Max({tat, t0}) + Period)]

\* one check of a key's cell at time t0: a new key starts at t0 + Period;
\* the request conforms unless t0 is before tat - Tau; a conforming request
\* moves tat one Period on
Admit(cell, t0) ==
    LET tat == IF cell = None THEN t0 + Period ELSE cell[1]
        earliest == IF tat > Tau THEN tat - Tau ELSE 0
    IN IF t0 < earliest
       THEN [ok |-> FALSE, cell |-> cell]
       ELSE [ok |-> TRUE, cell |-> Some(Max({tat, t0}) + Period)]

----------------------------------------------------------------------------
(* Time source *)

\* SystemTimeService::now
TimeNow == now

----------------------------------------------------------------------------
(* Router (main::api, admin::routes) *)

\* AdminMounted with the routes mounted whatever the environment says
AdminMounted_Always == TRUE

\* admin::routes mounts its two routes only when API_KEY is set
AdminMounted == apiKey # None

\* the handler the router gives a request to
Route(req) ==
    CASE req.method = "POST" /\ req.path = "/register" -> "add_visitor"
      [] req.method = "GET" /\ req.path = "/visitors" -> "list_visitors"
      [] req.method = "GET" /\ req.path = "/admin/visitors" /\ AdminMounted
            -> "admin::list_visitors"
      [] req.method = "DELETE" /\ req.path = "/admin/visitors/:id"
            /\ AdminMounted
            -> "admin::delete_visitor"
      [] OTHER -> "fallback"

\* Authorized with any Authorization header accepted
Authorized_AnyHeader(req) == req.auth # None

\* ValidateRequestHeaderLayer::bearer(&key): the Authorization header must
\* be exactly "Bearer <key>"
Authorized(req) ==
    apiKey # None /\ req.auth = Some("Bearer " \o apiKey[1])

\* the client address add_visitor binds to column ip:
\* headers.get("X-Forwarded-For").map(|x| x.to_str().ok())
\*        .unwrap_or(Some(addr.to_string()))
ClientIp(req) ==
    LET h == HeaderGet(req.xff)
    IN IF h = None THEN Some(AddrToString(req.peer)) ELSE ToStr(h[1])

InflightCount ==
    LET RECURSIVE Sum(_)
        Sum(S) == IF S = {} THEN 0
                  ELSE LET r == CHOOSE r \in S : TRUE
                       IN inflight[r] + Sum(S \ {r})
    IN Sum(RegisterRequests)

----------------------------------------------------------------------------
(* Actions *)

Init ==
    /\ apiKey \in {None, Some("key")}
    /\ visitor = {}
    /\ issued = 0
    /\ limiter = [k \in Keys |-> None]
    /\ now = 0
    /\ inflight = [r \in RegisterRequests |-> 0]
    /\ resp = NoResponse

\* RateLimit with the layer answering 429 and calling the handler all the same
RateLimit_CallsHandler(r) ==
    /\ Route(r) = "add_visitor"
    /\ UNCHANGED <<apiKey, visitor, issued, now>>
    /\ LET key == SmartIpKey(r)
           a == Admit(limiter[key], now)
       IN /\ resp' = IF a.ok THEN NoResponse
                     ELSE ApiErrorResponse("governor",
                                           FromBoxError("TooManyRequests"))
          /\ limiter' = [limiter EXCEPT ![key] = a.cell]
          /\ inflight' = [inflight EXCEPT ![r] = @ + 1]
          /\ InflightCount < MaxInflight

\* POST /register reaches the GovernorLayer wrapped around add_visitor: the
\* key's cell is checked and updated in one atomic step; a rejected request
\* is answered by the error handler, an admitted one goes on to the handler
RateLimit(r) ==
    /\ Route(r) = "add_visitor"
    /\ UNCHANGED <<apiKey, visitor, issued, now>>
    /\ LET key == SmartIpKey(r)
           a == Admit(limiter[key], now)
       IN IF a.ok
          THEN /\ resp' = NoResponse
               /\ limiter' = [limiter EXCEPT ![key] = a.cell]
               /\ inflight' = [inflight EXCEPT ![r] = @ + 1]
               /\ InflightCount < MaxInflight
          ELSE /\ resp' = ApiErrorResponse("governor",
                              FromBoxError("TooManyRequests"))
               /\ UNCHANGED <<limiter, inflight>>

\* AddVisitor with the token given back to the key when the registration
\* fails
AddVisitor_RefundsOnFailure(r) ==
    /\ inflight[r] > 0
    /\ NextRowId(visitor) <= MaxId
    /\ inflight' = [inflight EXCEPT ![r] = @ - 1]
    /\ LET res == IF r.body.json # "ok"
                  THEN [ok |-> FALSE, code |-> "0", table |-> visitor,
                        message |-> r.body.json]
                  ELSE Insert(visitor, Some(TimeNow), ClientIp(r),
                              Some(r.body.nick), r.body.group,
                              r.body.email, r.body.extra)
           key == SmartIpKey(r)
       IN /\ visitor' = res.table
          /\ issued' = Max({issued} \cup {q.id : q \in res.table \ visitor})
          /\ resp' = IF res.ok
                     THEN Response("add_visitor", 201, "empty", "", <<>>)
                     ELSE IF r.body.json # "ok"
                     THEN Response("add_visitor", 422, "text", r.body.json,
                                   <<>>)
                     ELSE ApiErrorResponse("add_visitor", FromSqlxError(res))
          /\ limiter' = IF res.ok \/ limiter[key] = None THEN limiter
                        ELSE [limiter EXCEPT
                                ![key] = Some(limiter[key][1] - Period)]
    /\ UNCHANGED <<apiKey, now>>

\* add_visitor runs for an admitted request: the Json extractor, then the
\* INSERT, whose outcome decides the answer; the table is what the statement
\* left
AddVisitor(r) ==
    /\ inflight[r] > 0
    /\ NextRowId(visitor) <= MaxId
    /\ inflight' = [inflight EXCEPT ![r] = @ - 1]
    /\ IF r.body.json # "ok"
       THEN /\ resp' = Response("add_visitor", 422, "text", r.body.json,
                                <<>>)
            /\ UNCHANGED <<visitor, issued>>
       ELSE LET res == Insert(visitor, Some(TimeNow), ClientIp(r),
                              Some(r.body.nick), r.body.group,
                              r.body.email, r.body.extra)
            IN /\ visitor' = res.table
               /\ issued' = Max({issued} \cup
                                {q.id : q \in res.table \ visitor})
               /\ resp' = IF res.ok
                          THEN Response("add_visitor", 201, "empty", "", <<>>)
                          ELSE ApiErrorResponse("add_visitor",
                                                FromSqlxError(res))
    /\ UNCHANGED <<apiKey, limiter, now>>

\* ListVisitors with the route behind the registration's limiter
ListVisitors_Governed ==
    /\ Route(PublicList) = "list_visitors"
    /\ LET key == SmartIpKey(PublicList)
           a == Admit(limiter[key], now)
       IN /\ limiter' = [limiter EXCEPT ![key] = a.cell]
          /\ resp' = IF a.ok
                     THEN Response("list_visitors", 200, "json", "",
                                   SelectPublic(visitor))
                     ELSE ApiErrorResponse("governor",
                                           FromBoxError("TooManyRequests"))
    /\ UNCHANGED <<apiKey, visitor, issued, now, inflight>>

\* GET /visitors
ListVisitors ==
    /\ Route(PublicList) = "list_visitors"
    /\ resp' = Response("list_visitors", 200, "json", "",
                        SelectPublic(visitor))
    /\ UNCHANGED <<apiKey, visitor, issued, limiter, now, inflight>>

\* a request to a mounted admin route without the configured bearer token:
\* the validation layer answers 401, the handler does not run
AdminUnauthorized(r) ==
    /\ Route(r) \in {"admin::list_visitors", "admin::delete_visitor"}
    /\ ~Authorized(r)
    /\ resp' = Response("validate_request", 401, "empty", "", <<>>)
    /\ UNCHANGED <<apiKey, visitor, issued, limiter, now, inflight>>

\* GET /admin/visitors with the token
AdminListVisitors(r) ==
    /\ Route(r) = "admin::list_visitors"
    /\ Authorized(r)
    /\ resp' = Response("admin::list_visitors", 200, "json", "",
                        SelectAll(visitor))
    /\ UNCHANGED <<apiKey, visitor, issued, limiter, now, inflight>>

\* DELETE /admin/visitors/:id with the token
AdminDeleteVisitor(r) ==
    /\ Route(r) = "admin::delete_visitor"
    /\ Authorized(r)
    /\ LET res == Delete(visitor, r.id)
       IN /\ visitor' = res.table
          /\ resp' = Response("admin::delete_visitor",
                              IF res.rows_affected = 0 THEN 404 ELSE 204,
                              "empty", "", <<>>)
    /\ UNCHANGED <<apiKey, issued, limiter, now, inflight>>

\* a request no route matches: the router's fallback
NotFound(r) ==
    /\ Route(r) = "fallback"
    /\ resp' = Response("fallback", 404, "empty", "", <<>>)
    /\ UNCHANGED <<apiKey, visitor, issued, limiter, now, inflight>>

\* time passes, one replenishment period at a time
Delays == {Period}

Advance(d) ==
    /\ now + d <= MaxTime
    /\ now' = now + d
    /\ resp' = NoResponse
    /\ UNCHANGED <<apiKey, visitor, issued, limiter, inflight>>

Next ==
    \/ \E r \in RegisterRequests : RateLimit(r)
    \/ \E r \in RegisterRequests : AddVisitor(r)
    \/ ListVisitors
    \/ \E r \in AdminRequests : AdminUnauthorized(r)
    \/ \E r \in AdminRequests : AdminListVisitors(r)
    \/ \E r \in AdminRequests : AdminDeleteVisitor(r)
    \/ \E r \in AdminRequests \cup {Unrecognized} : NotFound(r)
    \/ \E d \in Delays : Advance(d)

Spec == Init /\ [][Next]_vars

\* the clock does not stop: time keeps passing while the model's horizon
\* allows it
FairSpec == Spec /\ WF_vars(\E d \in Delays : Advance(d))

\* one second passes
Tick ==
    /\ now < MaxTick
    /\ Advance(1)

\* the registration path alone, on a clock that also advances by seconds
NextClock ==
    \/ \E r \in RegisterRequests : RateLimit(r)
    \/ \E r \in RegisterRequests : AddVisitor(r)
    \/ Tick
    \/ \E d \in Delays : Advance(d)

SpecClock == Init /\ [][NextClock]_vars

----------------------------------------------------------------------------
(* Properties *)

Min(a, b) == IF a < b THEN a ELSE b

\* the registrations that passed the limiter and have not been handled
Pending == {r \in RegisterRequests : inflight[r] > 0}

\* the rows a step adds to the table, and those it removes
Added == visitor' \ visitor
Removed == visitor \ visitor'

\* the step is add_visitor answering r with the given status
Registered(r, status) ==
    AddVisitor(r) /\ resp'.op = "add_visitor" /\ resp'.status = status

NickUnique ==
    \A p \in visitor : \A q \in visitor : p.nick = q.nick => p = q

\* C1: no two rows of the visitor table ever have the same nick, under every
\* interleaving of registrations (several of them between limiter and
\* handler at once, also with one nick) and deletions; and a registration
\* succeeds only if no row holds its nick at that moment, so of several
\* concurrent registrations with one nick at most one succeeds while the
\* winner's row is there.
C1_NickUnique ==
    /\ []NickUnique
    /\ [][\A r \in RegisterRequests :
            Registered(r, 201) =>
                /\ ~ \E q \in visitor : q.nick = r.body.nick
                /\ Cardinality({q \in visitor' : q.nick = r.body.nick}) = 1
         ]_vars

\* one registration has just succeeded while another with the same nick is
\* still between limiter and handler
C1_Witness ==
    /\ resp.op = "add_visitor" /\ resp.status = 201
    /\ \E r \in Pending : \E q \in visitor : q.nick = r.body.nick

\* C2 (as claimed): the id of every newly inserted row is greater than every
\* id an earlier successful insert assigned, deleted rows included.
C2_IdsNeverReused ==
    [][\A q \in Added : q.id > issued]_vars

\* C3 (as claimed): an admitted registration whose nick is already in the
\* table is answered 400 with a JSON {error} body and changes no row.
C3_DuplicateIs400 ==
    [][\A r \in RegisterRequests :
          (AddVisitor(r) /\ r.body.json = "ok"
             /\ \E q \in visitor : q.nick = r.body.nick)
          => /\ resp'.status = 400
             /\ resp'.kind = "json_error"
             /\ visitor' = visitor
      ]_vars

\* the client identity as the specification resolves it: the first value of
\* the forwarded-for header when the header is present, else the peer address
ClaimedIdentity(r) ==
    IF r.xff # <<>> THEN r.xff[1].parts[1] ELSE AddrToString(r.peer)

\* C4 (as claimed): an admitted registration with a valid payload and a nick
\* not in the table is answered 201 and adds exactly one row, holding the
\* submitted fields, the resolved client identity and the time source's
\* value; the other rows stay.
C4_RegisterCreatesRow ==
    [][\A r \in RegisterRequests :
          (AddVisitor(r) /\ r.body.json = "ok"
             /\ ~ \E q \in visitor : q.nick = r.body.nick)
          => /\ resp'.status = 201
             /\ visitor \subseteq visitor'
             /\ Cardinality(Added) = 1
             /\ \A q \in Added :
                  /\ q.nick = r.body.nick /\ q.group = r.body.group
                  /\ q.email = r.body.email /\ q.extra = r.body.extra
                  /\ q.ip = ClaimedIdentity(r)
                  /\ q.created_at = now
      ]_vars

\* the tokens a cell holds at time t, as a token bucket of capacity Burst
\* refilled by one token per Period counts them
Tokens(cell, t) ==
    IF cell = None THEN Burst
    ELSE IF t + Tau < cell[1] THEN 0
    ELSE Min(Burst, ((t + Tau - cell[1]) \div Period) + 1)

AdminServed(r) ==
    /\ resp'.op \in {"validate_request", "admin::list_visitors",
                    "admin::delete_visitor", "fallback"}
    /\ \/ AdminUnauthorized(r)
       \/ AdminListVisitors(r)
       \/ AdminDeleteVisitor(r)
       \/ NotFound(r)

\* C6: with an admin token configured, a request to an admin route whose
\* Authorization header is absent or is not "Bearer <token>" is answered 401
\* with no body; no handler runs: the table is unchanged and the response
\* lists no visitor.
C6_AdminNeedsToken ==
    [][\A r \in AdminRequests :
          (apiKey # None /\ r.auth # Some("Bearer " \o apiKey[1])
             /\ AdminServed(r))
          => /\ resp'.status = 401
             /\ resp'.op = "validate_request"
             /\ resp'.list = <<>>
             /\ visitor' = visitor
      ]_vars

\* an admin request was refused while the table held rows
C6_Witness ==
    /\ apiKey # None
    /\ resp.op = "validate_request" /\ resp.status = 401
    /\ visitor # {}

\* C7: an authorized DELETE of an id in the table is answered 204 and
\* removes the row with that id and no other, after which neither list
\* holds the id; of an id not in the table it is answered 404 and the table
\* is unchanged.
C7_DeleteExactlyThatRow ==
    [][\A r \in AdminRequests :
          (resp'.op = "admin::delete_visitor" /\ AdminDeleteVisitor(r)) =>
            IF \E q \in visitor : q.id = r.id
            THEN /\ resp'.status = 204
                 /\ Removed = {q \in visitor : q.id = r.id}
                 /\ Cardinality(Removed) = 1
                 /\ Added = {}
                 /\ \A i \in DOMAIN SelectPublic(visitor') :
                        SelectPublic(visitor')[i].id # r.id
                 /\ \A i \in DOMAIN SelectAll(visitor') :
                        SelectAll(visitor')[i].id # r.id
            ELSE /\ resp'.status = 404
                 /\ visitor' = visitor
      ]_vars

\* a row was deleted and another row is still there
C7_Witness ==
    /\ resp.op = "admin::delete_visitor" /\ resp.status = 204
    /\ visitor # {}

\* C8: with no admin token configured, a request to an admin route, with any
\* credential or none, is answered exactly as a request to an unrecognized
\* path is (404) and the table is unchanged.
C8_AdminNotMounted ==
    [][\A r \in AdminRequests :
          (apiKey = None /\ AdminServed(r))
          => /\ NotFound(Unrecognized)
             /\ resp'.status = 404
             /\ visitor' = visitor
      ]_vars

\* the fallback answered while no token was configured and the table held
\* rows
C8_Witness ==
    /\ apiKey = None
    /\ resp.op = "fallback" /\ resp.status = 404
    /\ visitor # {}

\* values the columns hidden from the public view could hold instead
HiddenValues ==
    [email : {None, Some("other@example.com")},
     extra : {None, Some("Other")},
     ip : {"127.0.0.1:8080", "9.9.9.9"},
     created_at : {0, Period}]

\* the tables that differ from table at most in the hidden columns of its
\* rows
HiddenVariants(table) ==
    { { [q EXCEPT !.email = f[q].email, !.extra = f[q].extra,
                  !.ip = f[q].ip, !.created_at = f[q].created_at] :
        q \in table } :
      f \in [table -> HiddenValues] }

\* C9: GET /visitors answers 200 with one entry per row of the table, each
\* holding id, nick and group of its row and nothing else; every table that
\* differs only in email, extra, ip or created_at gives the same response.
C9_PublicViewOnly ==
    resp.op = "list_visitors" =>
        /\ resp.status = 200
        /\ Len(resp.list) = Cardinality(visitor)
        /\ \A i \in DOMAIN resp.list :
              /\ DOMAIN resp.list[i] = {"id", "nick", "group"}
              /\ \E q \in visitor :
                    /\ resp.list[i].id = q.id
                    /\ resp.list[i].nick = q.nick
                    /\ resp.list[i].group = q.group
        /\ \A q \in visitor : \E i \in DOMAIN resp.list : resp.list[i].id = q.id
        /\ \A t \in HiddenVariants(visitor) : SelectPublic(t) = resp.list

\* the public list was answered for a table of two rows, one with an email
C9_Witness ==
    /\ resp.op = "list_visitors"
    /\ Cardinality(visitor) = 2
    /\ \E q \in visitor : q.email # None

\* C10 (as claimed): the ip of a new row is the first value of the request's
\* forwarded-for header when the header is present, also when it lists
\* several addresses, and the peer address otherwise.
C10_IpIsFirstForwarded ==
    [][\A r \in RegisterRequests :
          Registered(r, 201) => \A q \in Added : q.ip = ClaimedIdentity(r)
      ]_vars

\* C11 (as claimed): an admitted registration whose nick is missing or is the
\* empty string is not answered 201 and adds no row.
C11_NickNonEmpty ==
    [][\A r \in RegisterRequests :
          (AddVisitor(r) /\ (r.body.json # "ok" \/ r.body.nick = ""))
          => /\ resp'.status # 201
             /\ visitor' = visitor
      ]_vars

\* the key's cell admits no request at time t
Exhausted(k, t) == ~Admit(limiter[k], t).ok

\* C12 (as claimed): no bucket ever holds more than 3 tokens, and a bucket
\* that is exhausted regains a token when one second passes: a request of
\* its key made then is admitted.
C12_RefillPerSecond ==
    /\ [](\A k \in Keys : Tokens(limiter[k], now) <= 3)
    /\ [][\A k \in Keys :
            (now' = now + 1 /\ Exhausted(k, now))
            => Admit(limiter'[k], now').ok
         ]_vars

\* C13: a step of a POST /register, at the limiter or in the handler, adds
\* exactly one row and removes none when it answers 201, and leaves the
\* table as it was on every other outcome (429, 422 for a malformed payload,
\* 400 for a duplicate nick, 500 for a failed insert, or no answer yet).
C13_RowIffCreated ==
    [][\A r \in RegisterRequests :
          (resp'.op \in {"none", "governor", "add_visitor"}
             /\ (RateLimit(r) \/ AddVisitor(r)))
          => IF resp'.status = 201
             THEN /\ visitor \subseteq visitor'
                  /\ Cardinality(Added) = 1
             ELSE visitor' = visitor
      ]_vars

\* a registration with a nick already in the table has been refused
C13_Witness ==
    /\ resp.op = "add_visitor" /\ resp.status = 400
    /\ Cardinality(visitor) = 1

\* C14: a registration the limiter rejects is answered 429 with the message
\* "too many requests", the same for every payload, and is not handed to the
\* handler: nothing is added to the requests waiting for add_visitor, so no
\* time is read and no insert is made for it (table and issued ids as they
\* were); add_visitor runs only for a request the limiter has admitted, once
\* per admission.
C14_RejectedBeforeHandler ==
    [][\A r \in RegisterRequests :
          /\ (resp'.op = "governor" /\ RateLimit(r))
             => /\ resp' = Response("governor", 429, "json_error",
                                    "too many requests", <<>>)
                /\ inflight' = inflight
                /\ visitor' = visitor
                /\ issued' = issued
          /\ (resp'.op = "add_visitor" /\ AddVisitor(r))
             => /\ inflight[r] > 0
                /\ inflight'[r] = inflight[r] - 1
      ]_vars

\* a registration has been rejected while the table holds the nick "Test"
\* and a request with a malformed payload waits for the handler
C14_Witness ==
    /\ resp.op = "governor" /\ resp.status = 429
    /\ \E q \in visitor : q.nick = "Test"
    /\ inflight[Register(XffAbsent, MissingNick)] > 0

\* C15 (as claimed): every response with one of the four failure statuses
\* (400 duplicate nick, 401 failed admin authentication, 429 rate limit, 500
\* store failure) carries a JSON body {error: <message>} with a message.
C15_FailuresAreJson ==
    resp.status \in {400, 401, 429, 500}
        => resp.kind = "json_error" /\ resp.error # ""

\* the columns of db::Visitor
VisitorColumns ==
    {"id", "created_at", "ip", "nick", "group", "email", "extra"}

\* C16: GET /admin/visitors with the token is answered 200 with exactly the
\* rows of the table, each with all seven columns as stored (an optional
\* column that was not given is null), in ascending order of id, whatever
\* registrations and deletions came before; the request changes no row.
C16_AdminListsAll ==
    /\ [](resp.op = "admin::list_visitors" =>
            /\ resp.status = 200
            /\ Len(resp.list) = Cardinality(visitor)
            /\ \A i \in DOMAIN resp.list :
                  /\ resp.list[i] \in visitor
                  /\ DOMAIN resp.list[i] = VisitorColumns
            /\ \A q \in visitor : \E i \in DOMAIN resp.list : resp.list[i] = q
            /\ \A i \in DOMAIN resp.list : \A j \in DOMAIN resp.list :
                  i < j => resp.list[i].id < resp.list[j].id)
    /\ [][\A r \in AdminRequests :
            (resp'.op = "admin::list_visitors" /\ AdminListVisitors(r))
            => visitor' = visitor
         ]_vars

\* the admin list was answered for a table of two rows, the first without a
\* group and the second with one
C16_Witness ==
    /\ resp.op = "admin::list_visitors"
    /\ Len(resp.list) = 2
    /\ resp.list[1].group = None /\ resp.list[2].group # None

\* C17: whatever a key's cell holds, in particular right after a 429, a
\* request of the key made one replenishment interval (Period) or more
\* later, with no admission of the key in between, is admitted; and while time
\* advances an exhausted key does not stay exhausted.
C17_RecoverAfterBackoff ==
    /\ [](\A k \in Keys : \A d \in Period..(2 * Period) :
            Admit(limiter[k], now + d).ok)
    /\ \A k \in Keys :
          (Exhausted(k, now) /\ now + Period <= MaxTime)
              ~> ~Exhausted(k, now)

\* a client that had used its burst at time 0 has been admitted again one
\* interval later
C17_Witness ==
    /\ now = Period
    /\ limiter["127.0.0.1"] = Some(Period + Burst * Period + Period)
    /\ resp.op = "none"

\* the step is the service answering a request other than a registration
OtherServed ==
    /\ resp'.op \notin {"none", "add_visitor"}
    /\ \/ ListVisitors
       \/ \E r \in AdminRequests : AdminServed(r)
       \/ NotFound(Unrecognized)

\* C18: GET /visitors, GET /admin/visitors and DELETE /admin/visitors/{id}
\* (authorized or not, mounted or not) are never answered 429 and change no
\* cell of the limiter, so every key's tokens are the same before and after;
\* only the limiter step of a registration answers 429.
C18_OnlyRegisterLimited ==
    /\ [](resp.status = 429 => resp.op = "governor")
    /\ [][OtherServed =>
            /\ resp'.status # 429
            /\ limiter' = limiter
            /\ \A k \in Keys :
                  Tokens(limiter'[k], now') = Tokens(limiter[k], now)
         ]_vars

\* the public list was answered for the client whose registrations are
\* exhausted
C18_Witness ==
    /\ resp.op = "list_visitors" /\ resp.status = 200
    /\ Exhausted(SmartIpKey(PublicList), now)

C20_KeyIsRecordedIdentity ==
    \A r1 \in Pending : \A r2 \in Pending :
        (ClientIp(r1) # None /\ ClientIp(r2) # None) =>
            (SmartIpKey(r1) = SmartIpKey(r2) <=> ClientIp(r1) = ClientIp(r2))

\* C21: a row that a step leaves in the table (its id is there before and
\* after) has the same id, created_at, ip, nick, group, email and extra
\* after the step as before, whatever the step is; and a step that changes
\* the table is either a registration answered 201, which adds one row and
\* removes none, or a delete answered 204, which removes one row and adds
\* none.
C21_RowsNeverUpdated ==
    [][/\ \A q \in visitor : \A p \in visitor' : p.id = q.id => p = q
       /\ visitor' # visitor =>
            \/ /\ resp'.op = "add_visitor" /\ resp'.status = 201
               /\ Removed = {} /\ Cardinality(Added) = 1
            \/ /\ resp'.op = "admin::delete_visitor" /\ resp'.status = 204
               /\ Added = {} /\ Cardinality(Removed) = 1
      ]_vars

\* a row inserted at time 0 still holds what it was inserted with after the
\* clock has advanced and a second registration has succeeded
C21_Witness ==
    /\ resp.op = "add_visitor" /\ resp.status = 201
    /\ \E p \in visitor : \E q \in visitor :
          p.created_at = 0 /\ q.created_at = Period

OnlyTestRegistered ==
    /\ limiter[SmartIpKey(Register(XffSingle, EmptyNick))] = None
    /\ limiter[SmartIpKey(Register(XffList, AllFields))] = None

\* C23 (as claimed): a registration is refused as a duplicate (400) only
\* while a row with its nick is in the table; and once the row that held
\* the nick "Test" has been deleted and the table is empty, an admitted
\* registration with a valid payload and that nick is answered 201 and
\* adds one row.
C23_DeleteFreesNick ==
    [][\A r \in RegisterRequests :
          (resp'.op = "add_visitor" /\ AddVisitor(r) /\ r.body.json = "ok")
          => /\ resp'.status = 400 => \E q \in visitor : q.nick = r.body.nick
             /\ (OnlyTestRegistered /\ issued > 0 /\ visitor = {}
                   /\ r.body.nick = "Test")
                => /\ resp'.status = 201
                   /\ Cardinality(Added) = 1
      ]_vars

====
